---- MODULE Spec2Model ----
(***************************************************************************)
(* Value resolution of GoogleCloudSecretSettings (pydantic_cloud/gcp.py).  *)
(*                                                                         *)
(* One construction of a settings object is one run: _build_values calls   *)
(* the four layer builders in argument order and merges their results with *)
(* the constructor kwargs.  The inputs of a run (class configuration,      *)
(* process environment, local .env file, secrets directory, kwargs and the *)
(* content of Secret Manager) are fixed in Init.                           *)
(***************************************************************************)
EXTENDS Integers, Sequences, FiniteSets, TLC

(***************************************************************************)
(* Python values.  A str, None, a number and a dict are records with       *)
(* different fields, so that any two values can be compared.               *)
(***************************************************************************)
None == [none |-> TRUE]
Str(s) == [str |-> s]
Num(n) == [num |-> n]
Dict(m) == [dict |-> m]
IsStr(v) == "str" \in DOMAIN v
IsDict(v) == "dict" \in DOMAIN v

\* a Python dict with str keys: a function on a finite set of strings
EmptyMap == [k \in {} |-> None]
\* {key: value}
Single(k, v) == [x \in {k} |-> v]
\* m.get(k)
Get(m, k) == IF k \in DOMAIN m THEN m[k] ELSE None
\* {**a, **b}
Overlay(a, b) == [k \in DOMAIN a \cup DOMAIN b |-> IF k \in DOMAIN b THEN b[k] ELSE a[k]]
\* m[k] = v
Put(m, k, v) == Overlay(m, Single(k, v))
\* (variant: the test `is None` in place of truthiness)
Truthy_is_not_none(v) == v # None
\* bool(v) of an Optional[str]
Truthy(v) == v # None /\ v # Str("")

\* the outcome of a call: a returned value or a raised exception
Return(v) == [ok |-> TRUE, val |-> v]
Raise(e, a) == [ok |-> FALSE, exc |-> e, arg |-> a]

(***************************************************************************)
(* Names.  str.lower() on the variable names of the model.                 *)
(***************************************************************************)
LowerTable == [TOKEN |-> "token", OPTS |-> "opts", REF |-> "ref", CE |-> "ce"]
Lower(s) == IF s \in DOMAIN LowerTable THEN LowerTable[s] ELSE s
\* {k.lower(): v for k, v in m.items()}; the mappings of the model never hold
\* two keys that differ only in case, so the order of m.items() does not matter
LowerKeys(m) ==
    [k \in {Lower(n) : n \in DOMAIN m} |-> m[CHOOSE n \in DOMAIN m : Lower(n) = k]]

(***************************************************************************)
(* Collaborators: python-dotenv and json, tabulated on the texts of the    *)
(* model.                                                                  *)
(***************************************************************************)
\* dotenv_values(stream): KEY=VALUE lines to a mapping, a bare KEY to None
DotenvTable ==
    [x \in {""} |-> EmptyMap] @@
    ("TOKEN=t_blob" :> Single("TOKEN", Str("t_blob"))) @@
    ("OPTS={\"c\":3}" :> Single("OPTS", Str("{\"c\":3}"))) @@
    ("OPTS={a:1}" :> Single("OPTS", Str("{a:1}"))) @@
    ("TOKEN" :> Single("TOKEN", None)) @@
    ("REF=r1" :> Single("REF", Str("r1"))) @@
    ("token=t_file" :> Single("token", Str("t_file")))
dotenv_values(text) == DotenvTable[text]

\* json.loads(text): the decoded value, or ValueError on malformed text
JsonTable ==
    ("{\"a\":1}" :> Dict(Single("a", Num(1)))) @@
    ("{\"b\":2}" :> Dict(Single("b", Num(2)))) @@
    ("{\"c\":3}" :> Dict(Single("c", Num(3))))
json_loads(text) ==
    IF text \in DOMAIN JsonTable THEN Return(JsonTable[text]) ELSE Raise("ValueError", text)

\* pydantic.utils.deep_update(mapping, *updating_mappings), one updating mapping
RECURSIVE deep_update1(_, _)
deep_update1(mapping, updating) ==
    [k \in DOMAIN mapping \cup DOMAIN updating |->
        IF k \notin DOMAIN updating THEN mapping[k]
        ELSE IF k \in DOMAIN mapping /\ IsDict(mapping[k]) /\ IsDict(updating[k])
             THEN Dict(deep_update1(mapping[k].dict, updating[k].dict))
             ELSE updating[k]]
\* ... and the fold over the updating mappings, in order
RECURSIVE deep_update(_, _)
deep_update(mapping, updating_mappings) ==
    IF updating_mappings = <<>> THEN mapping
    ELSE deep_update(deep_update1(mapping, Head(updating_mappings)), Tail(updating_mappings))

(***************************************************************************)
(* State.                                                                  *)
(***************************************************************************)
VARIABLES
    self,           \* the settings class: __config__ (case_sensitive, cloud_env_file) and __fields__
    environ,        \* os.environ
    env_file,       \* the text of the local .env file, None when there is no such file
    secrets_dir,    \* what the files of the secrets directory give, by field alias
    init_kwargs,    \* the constructor's keyword arguments
    store,          \* Secret Manager: resource name -> payload text, or the error the access raises
    pc,             \* the next step of _build_values
    cloud_environ,  \* result of _build_cloud_environ()
    gcs_values,     \* result of _build_gcs_values()
    secrets,        \* result of _build_secrets_files()
    local_environ,  \* result of _build_environ()
    values,         \* result of _build_values()
    raised,         \* the exception that ended the run, None if none
    fetched         \* the calls of get_google_cloud_secret so far: <<caller, key>>

inputs == <<self, environ, env_file, secrets_dir, init_kwargs, store>>
vars == <<self, environ, env_file, secrets_dir, init_kwargs, store, pc, cloud_environ,
          gcs_values, secrets, local_environ, values, raised, fetched>>

(***************************************************************************)
(* get_google_cloud_secret and read_cloud_env_file.                        *)
(***************************************************************************)
\* client.access_secret_version(name=key): the payload, or the error raised
access_secret_version(key) ==
    IF key \in DOMAIN store THEN store[key] ELSE Raise("GoogleAPIError", key)

\* (variant: only GoogleAuthError is caught)
get_google_cloud_secret_auth_only(key) ==
    LET response == access_secret_version(key) IN
    IF response.ok THEN Return(Str(response.val))
    ELSE IF response.exc = "GoogleAuthError" THEN Return(None)
    ELSE response

\* the auth and API errors are caught and logged; the function then falls off
\* its end, which returns None
get_google_cloud_secret(key) ==
    LET response == access_secret_version(key) IN
    IF response.ok THEN Return(Str(response.val))
    ELSE IF response.exc \in {"GoogleAuthError", "GoogleAPIError"} THEN Return(None)
    ELSE response

\* io.StringIO(content): None gives the empty stream
StringIO(content) == IF content = None THEN "" ELSE content.str

read_cloud_env_file(cloud_path, case_sensitive) ==
    LET content == get_google_cloud_secret(cloud_path) IN
    IF ~content.ok THEN content
    ELSE LET file_vars == dotenv_values(StringIO(content.val)) IN
         IF ~case_sensitive THEN Return(LowerKeys(file_vars)) ELSE Return(file_vars)

(***************************************************************************)
(* The layer builders of GoogleCloudSecretSettings.                        *)
(***************************************************************************)
\* the scan of a field's env_names: the first name whose value is not None,
\* or the last name scanned
RECURSIVE first_env(_, _)
first_env(env_names, env_vars) ==
    LET env_name == Head(env_names)
        env_val == Get(env_vars, env_name)
    IN IF env_val # None \/ Len(env_names) = 1
       THEN [env_name |-> env_name, env_val |-> env_val]
       ELSE first_env(Tail(env_names), env_vars)

\* (variant: the ValueError of the decoder is not wrapped)
field_value_unwrapped(field, hit) ==
    IF field.is_complex THEN json_loads(hit.env_val.str) ELSE Return(hit.env_val)

\* (variant: no decoding of complex fields)
field_value_text(field, hit) == Return(hit.env_val)

\* the value _build_cloud_environ stores for a field whose variable was found:
\* the text, JSON-decoded when the field is complex; a ValueError of the
\* decoder is raised again as SettingsError naming the variable
field_value(field, hit) ==
    IF field.is_complex
    THEN LET decoded == json_loads(hit.env_val.str) IN
         IF decoded.ok THEN decoded ELSE Raise("SettingsError", hit.env_name)
    ELSE Return(hit.env_val)

\* the loop of _build_cloud_environ over __fields__, filling d from env_vars
RECURSIVE environ_fields(_, _, _)
environ_fields(flds, env_vars, d) ==
    IF flds = <<>> THEN Return(d)
    ELSE LET field == Head(flds)
             hit == first_env(field.env_names, env_vars)
         IN IF hit.env_val = None THEN environ_fields(Tail(flds), env_vars, d)
            ELSE LET env_val == field_value(field, hit) IN
                 IF env_val.ok
                 THEN environ_fields(Tail(flds), env_vars, Put(d, field.alias, env_val.val))
                 ELSE env_val

\* (variant: the keys of os.environ are never lower-cased)
process_env_vars_as_is(slf) == environ

\* os.environ, its keys lower-cased unless case_sensitive
process_env_vars(slf) == IF slf.case_sensitive THEN environ ELSE LowerKeys(environ)

\* the variable looked up for the cloud env file
cloud_env_file_key(slf) == Lower(slf.cloud_env_file.str)

\* whether _build_cloud_environ reaches read_cloud_env_file
cloud_env_file_found(slf) ==
    /\ slf.cloud_env_file # None
    /\ cloud_env_file_key(slf) \in DOMAIN process_env_vars(slf)

\* read_cloud_env_file is called without case_sensitive, whose default is False
_build_cloud_environ(slf) ==
    LET env_vars == process_env_vars(slf) IN
    IF cloud_env_file_found(slf)
    THEN LET file == read_cloud_env_file(env_vars[cloud_env_file_key(slf)].str, FALSE) IN
         IF file.ok THEN environ_fields(slf.fields, Overlay(file.val, env_vars), EmptyMap)
         ELSE file
    ELSE environ_fields(slf.fields, env_vars, EmptyMap)

\* pydantic.env_settings.read_env_file
read_env_file(text, case_sensitive) ==
    LET file_vars == dotenv_values(text) IN
    IF ~case_sensitive THEN LowerKeys(file_vars) ELSE file_vars

\* os.environ over the local .env file
local_env_vars(slf, _env_file) ==
    IF _env_file # None
    THEN Overlay(read_env_file(_env_file.str, slf.case_sensitive), process_env_vars(slf))
    ELSE process_env_vars(slf)

\* the loop over __fields__ that fetches the secret of every field with a cloud_key;
\* acc is the env built so far with the fetches made
RECURSIVE gcs_fields(_, _, _, _)
gcs_fields(slf, flds, env_vars, acc) ==
    IF flds = <<>> THEN acc
    ELSE LET field == Head(flds)
             cloud_key == IF slf.case_sensitive THEN field.cloud_key.str
                          ELSE Lower(field.cloud_key.str)
         IN IF ~IsStr(field.cloud_key) THEN gcs_fields(slf, Tail(flds), env_vars, acc)
            ELSE IF ~Truthy(Get(env_vars, cloud_key))
            THEN gcs_fields(slf, Tail(flds), env_vars, acc)
            ELSE LET secret == get_google_cloud_secret(env_vars[cloud_key].str)
                     calls == Append(acc.calls, <<field.alias, env_vars[cloud_key].str>>)
                 IN IF secret.ok
                    THEN gcs_fields(slf, Tail(flds), env_vars,
                                    [ok |-> TRUE, val |-> Put(acc.val, field.alias, secret.val),
                                     calls |-> calls])
                    ELSE [ok |-> FALSE, exc |-> secret.exc, arg |-> secret.arg, calls |-> calls]

_build_gcs_values(slf, _env_file) ==
    gcs_fields(slf, slf.fields, local_env_vars(slf, _env_file),
               [ok |-> TRUE, val |-> EmptyMap, calls |-> <<>>])

\* BaseSettings._build_secrets_files: the text of one file per field
_build_secrets_files(_secrets_dir) == Return(_secrets_dir)

\* BaseSettings._build_environ: the fields' values from os.environ over the
\* .env file, complex fields JSON-decoded
RECURSIVE base_environ_fields(_, _, _)
base_environ_fields(flds, env_vars, d) ==
    IF flds = <<>> THEN Return(d)
    ELSE LET field == Head(flds)
             hit == first_env(field.env_names, env_vars)
         IN IF hit.env_val = None THEN base_environ_fields(Tail(flds), env_vars, d)
            ELSE IF field.is_complex
            THEN LET decoded == json_loads(hit.env_val.str) IN
                 IF decoded.ok
                 THEN base_environ_fields(Tail(flds), env_vars, Put(d, field.alias, decoded.val))
                 ELSE Raise("SettingsError", hit.env_name)
            ELSE base_environ_fields(Tail(flds), env_vars, Put(d, field.alias, hit.env_val))

_build_environ(slf, _env_file) ==
    base_environ_fields(slf.fields, local_env_vars(slf, _env_file), EmptyMap)

\* (variant: the cloud layers merged after the local ones)
_build_values_cloud_over_local(cloud, gcs, secret_files, local, kwargs) ==
    deep_update(secret_files, <<local, cloud, gcs, kwargs>>)

\* (variant: the cloud env-file layer merged last)
_build_values_cloud_environ_last(cloud, gcs, secret_files, local, kwargs) ==
    deep_update(gcs, <<secret_files, local, kwargs, cloud>>)

\* the merge of _build_values: later layers override earlier ones
_build_values(cloud, gcs, secret_files, local, kwargs) ==
    deep_update(cloud, <<gcs, secret_files, local, kwargs>>)

(***************************************************************************)
(* The inputs of a run.                                                    *)
(***************************************************************************)
\* number of keys a dict passed as a kwarg is drawn from
MaxKwargKeys == 2
KwargKeys == SubSeq(<<"b", "a", "c", "d">>, 1, MaxKwargKeys)

\* Config.prepare_field: the env_names of a field are its name, lower-cased
\* unless case_sensitive
Field(name, case_sensitive, is_complex, cloud_key) ==
    [alias |-> name,
     env_names |-> IF case_sensitive THEN <<name>> ELSE <<Lower(name)>>,
     is_complex |-> is_complex,
     cloud_key |-> cloud_key]

\* class Settings(GoogleCloudSecretSettings):
\*     token: str = Field(cloud_key="REF")
\*     OPTS: dict [= Field(cloud_key="REF")]
Settings(case_sensitive, cloud_env_file, opts_cloud_key) ==
    [case_sensitive |-> case_sensitive,
     cloud_env_file |-> cloud_env_file,
     fields |-> <<Field("token", case_sensitive, FALSE, Str("REF")),
                  Field("OPTS", case_sensitive, TRUE, opts_cloud_key)>>]

Aliases == {"token", "OPTS"}

Environs ==
    {t @@ o @@ r @@ c :
        t \in {EmptyMap, Single("token", Str("t_env"))},
        o \in {EmptyMap, Single("OPTS", Str("{\"a\":1}")), Single("OPTS", Str("{a:1}"))},
        r \in {EmptyMap, Single("REF", Str("r1")), Single("ref", Str("r1")),
               Single("REF", Str(""))},
        c \in {EmptyMap, Single("CE", Str("rb")), Single("ce", Str("rb"))}}

EnvFiles == {None, Str("REF=r1"), Str("token=t_file")}

SecretsDirs == {EmptyMap, Single("token", Str("t_sec"))}

Kwargs ==
    {EmptyMap, Single("token", Str("t_kw"))}
    \cup {Single("OPTS", Dict(Single(KwargKeys[i], Num(9)))) : i \in 1..MaxKwargKeys}

\* what Secret Manager answers for the secret of a field ...
FieldSecrets ==
    {Raise("GoogleAuthError", "r1"), Return("s3cret"), Return("{\"b\":2}")}
\* ... and for the cloud env file
CloudEnvFiles ==
    {Raise("GoogleAPIError", "rb"), Return("TOKEN=t_blob"), Return("OPTS={\"c\":3}"),
     Return("OPTS={a:1}"), Return("TOKEN")}

\* a resource that no variable of the run names is never accessed: its content is fixed
Named(resource) ==
    \/ \E n \in DOMAIN environ : environ[n] = Str(resource)
    \/ env_file # None /\ \E n \in DOMAIN dotenv_values(env_file.str) :
                              dotenv_values(env_file.str)[n] = Str(resource)

Init ==
    /\ self \in {Settings(cs, cef, ock) :
                    cs \in BOOLEAN, cef \in {None, Str("CE")}, ock \in {None, Str("REF")}}
    /\ environ \in Environs
    /\ env_file \in EnvFiles
    /\ secrets_dir \in SecretsDirs
    /\ init_kwargs \in Kwargs
    /\ store \in [{"r1", "rb"} -> FieldSecrets \cup CloudEnvFiles]
    /\ store["r1"] \in FieldSecrets
    /\ store["rb"] \in CloudEnvFiles
    /\ ~Named("r1") => store["r1"] = Raise("GoogleAuthError", "r1")
    /\ (~Named("rb") \/ self.cloud_env_file = None) => store["rb"] = Raise("GoogleAPIError", "rb")
    /\ pc = "build_cloud_environ"
    /\ cloud_environ = EmptyMap
    /\ gcs_values = EmptyMap
    /\ secrets = EmptyMap
    /\ local_environ = EmptyMap
    /\ values = EmptyMap
    /\ raised = None
    /\ fetched = <<>>

(***************************************************************************)
(* _build_values, one step per argument of its deep_update call.           *)
(***************************************************************************)
Fail(exception) ==
    /\ pc' = "raised"
    /\ raised' = [exc |-> exception.exc, arg |-> exception.arg]

BuildCloudEnviron ==
    /\ pc = "build_cloud_environ"
    /\ LET r == _build_cloud_environ(self) IN
       /\ fetched' = IF cloud_env_file_found(self)
                     THEN <<(<<"cloud_env_file",
                               process_env_vars(self)[cloud_env_file_key(self)].str>>)>>
                     ELSE <<>>
       /\ IF r.ok
          THEN cloud_environ' = r.val /\ pc' = "build_gcs_values" /\ UNCHANGED raised
          ELSE Fail(r) /\ UNCHANGED cloud_environ
    /\ UNCHANGED <<inputs, gcs_values, secrets, local_environ, values>>

BuildGcsValues ==
    /\ pc = "build_gcs_values"
    /\ LET r == _build_gcs_values(self, env_file) IN
       /\ fetched' = fetched \o r.calls
       /\ IF r.ok
          THEN gcs_values' = r.val /\ pc' = "build_secrets_files" /\ UNCHANGED raised
          ELSE Fail(r) /\ UNCHANGED gcs_values
    /\ UNCHANGED <<inputs, cloud_environ, secrets, local_environ, values>>

BuildSecretsFiles ==
    /\ pc = "build_secrets_files"
    /\ LET r == _build_secrets_files(secrets_dir) IN
       IF r.ok
       THEN secrets' = r.val /\ pc' = "build_environ" /\ UNCHANGED raised
       ELSE Fail(r) /\ UNCHANGED secrets
    /\ UNCHANGED <<inputs, cloud_environ, gcs_values, local_environ, values, fetched>>

BuildEnviron ==
    /\ pc = "build_environ"
    /\ LET r == _build_environ(self, env_file) IN
       IF r.ok
       THEN local_environ' = r.val /\ pc' = "deep_update" /\ UNCHANGED raised
       ELSE Fail(r) /\ UNCHANGED local_environ
    /\ UNCHANGED <<inputs, cloud_environ, gcs_values, secrets, values, fetched>>

DeepUpdate ==
    /\ pc = "deep_update"
    /\ values' = _build_values(cloud_environ, gcs_values, secrets, local_environ, init_kwargs)
    /\ pc' = "done"
    /\ UNCHANGED <<inputs, cloud_environ, gcs_values, secrets, local_environ, raised, fetched>>

Next ==
    \/ BuildCloudEnviron
    \/ BuildGcsValues
    \/ BuildSecretsFiles
    \/ BuildEnviron
    \/ DeepUpdate

Spec == Init /\ [][Next]_vars

(***************************************************************************)
(* Vocabulary of the properties.                                           *)
(***************************************************************************)
FieldsOf == {self.fields[i] : i \in DOMAIN self.fields}
Names(f) == {f.env_names[i] : i \in DOMAIN f.env_names}
Terminal == pc \in {"done", "raised"}
CloudBuilt == pc \in {"build_gcs_values", "build_secrets_files", "build_environ",
                      "deep_update", "done"}
GcsBuilt == pc \in {"build_secrets_files", "build_environ", "deep_update", "done"}
\* the entry of a mapping for a key: <<value>>, or <<>> when it has none
Entry(m, a) == IF a \in DOMAIN m THEN <<m[a]>> ELSE <<>>
Layers == <<cloud_environ, gcs_values, secrets, local_environ, init_kwargs>>

\* a variable name n denotes the configured name K
Matches(n, K) == IF self.case_sensitive THEN n = K ELSE Lower(n) = Lower(K)
\* the values a mapping of variables holds under K
Under(m, K) == {m[n] : n \in {x \in DOMAIN m : Matches(x, K)}}
\* the local .env file as written
EnvFileVars == IF env_file = None THEN EmptyMap ELSE dotenv_values(env_file.str)
\* the value the environment (process environment over the .env file) holds under K
HeldUnder(K) == IF Under(environ, K) # {} THEN Under(environ, K) ELSE Under(EnvFileVars, K)
\* the secret fetch for resource r fails
FetchFails(r) == r \notin DOMAIN store \/ ~store[r].ok
\* the fields with a cloud_key whose variable holds r
RefersTo(f, r) == IsStr(f.cloud_key) /\ Str(r) \in HeldUnder(f.cloud_key.str) /\ r # ""

\* the blob that _build_cloud_environ fetched and parsed, if it fetched one
BlobVars ==
    IF fetched # <<>> /\ fetched[1][1] = "cloud_env_file" /\ ~FetchFails(fetched[1][2])
    THEN dotenv_values(store[fetched[1][2]].val)
    ELSE EmptyMap
\* the texts the process environment holds for a field
ProcTexts(f) == UNION {Under(environ, n) : n \in Names(f)}
\* the texts the cloud env-file layer takes from the blob for a field: those
\* under a key that is one of the field's names once lower-cased, the
\* process environment not holding the field's variable
BlobTexts(f) ==
    IF ProcTexts(f) # {} THEN {}
    ELSE {BlobVars[k] : k \in {x \in DOMAIN BlobVars : Lower(x) \in Names(f)}} \ {None}
Malformed(v) == IsStr(v) /\ v.str \notin DOMAIN JsonTable

\* deep_update of the three local layers alone
LocalOnly == deep_update(secrets, <<local_environ, init_kwargs>>)

\* C1: for scalar layer values, the resolved mapping gives every alias the
\* value of the highest-priority layer holding it (cloud env file < cloud
\* secret < secrets directory < local environment < kwargs), and no entry to
\* an alias that no layer holds.
C1_Precedence ==
    pc = "done" =>
        \A a \in Aliases :
            LET holding == {i \in 1..5 : a \in DOMAIN Layers[i]} IN
            (\A i \in holding : ~IsDict(Layers[i][a])) =>
                IF holding = {} THEN a \notin DOMAIN values
                ELSE LET top == CHOOSE i \in holding : \A j \in holding : j <= i IN
                     Entry(values, a) = <<Layers[top][a]>>

C1_Witness ==
    /\ pc = "done"
    /\ \A i \in 1..5 : "token" \in DOMAIN Layers[i]
    /\ Cardinality({Layers[i]["token"] : i \in 1..5}) = 5
    /\ Entry(values, "token") = <<Str("t_kw")>>

\* C2: a field with cloud_key K whose variable holds a non-empty resource
\* name r (names compared lower-cased unless case_sensitive), with the store
\* returning payload v for r and no higher layer supplying the field,
\* resolves to v.
C2_SecretResolves ==
    pc = "done" =>
        \A f \in FieldsOf : \A r \in DOMAIN store :
            (/\ RefersTo(f, r)
             /\ store[r].ok
             /\ f.alias \notin DOMAIN secrets \cup DOMAIN local_environ \cup DOMAIN init_kwargs)
            => Entry(values, f.alias) = <<Str(store[r].val)>>

C2_Witness ==
    /\ pc = "done"
    /\ ~self.case_sensitive
    /\ "ref" \in DOMAIN environ
    /\ store["r1"] = Return("s3cret")
    /\ "token" \notin DOMAIN secrets \cup DOMAIN local_environ \cup DOMAIN init_kwargs
    /\ Entry(values, "token") = <<Str("s3cret")>>

\* C3: a secret fetch that fails with an auth or API error never raises:
\* get_google_cloud_secret returns None, the cloud per-field layer holds None
\* for the field, and a run only ever ends in the SettingsError of a
\* malformed JSON text, whatever fetches fail.
C3_FetchFailureSilent ==
    /\ \A r \in DOMAIN store : ~store[r].ok => get_google_cloud_secret(r) = Return(None)
    /\ GcsBuilt => \A f \in FieldsOf : \A r \in DOMAIN store :
           (RefersTo(f, r) /\ FetchFails(r)) => Entry(gcs_values, f.alias) = <<None>>
    /\ pc = "raised" =>
           /\ raised.exc = "SettingsError"
           /\ \E f \in FieldsOf : f.is_complex /\
                  \E v \in ProcTexts(f) \cup BlobTexts(f) : Malformed(v)

C3_Witness ==
    /\ pc = "done"
    /\ Len(fetched) = 3
    /\ \A i \in 1..3 : FetchFails(fetched[i][2])
    /\ gcs_values = [a \in Aliases |-> None]

\* C4: when the secret fetch of a field fails, the cloud per-field layer has
\* no entry for the field, and the resolved mapping's entry for the field is
\* what the other four layers give it (none when they give none).
C4_FailedFetchLeavesUnset ==
    pc = "done" =>
        \A f \in FieldsOf : \A r \in DOMAIN store :
            (RefersTo(f, r) /\ FetchFails(r)) =>
                /\ f.alias \notin DOMAIN gcs_values
                /\ Entry(values, f.alias) =
                       Entry(deep_update(cloud_environ, <<secrets, local_environ, init_kwargs>>),
                             f.alias)

\* C5 as stated: a field without cloud_key resolves to what the secrets
\* directory, the local environment and the kwargs alone give it.
C5_NoCloudValueWithoutCloudKey ==
    pc = "done" =>
        \A f \in FieldsOf :
            ~IsStr(f.cloud_key) => Entry(values, f.alias) = Entry(LocalOnly, f.alias)

\* C5 amended: for a field without cloud_key the cloud per-field layer never
\* has an entry; the cloud env-file layer has one when it takes a value for
\* the field from the blob, and in every other case the field resolves to
\* what the three local layers alone give it.
C5_OnlyEnvFileLayerReachesPlainFields ==
    pc = "done" =>
        \A f \in FieldsOf :
            ~IsStr(f.cloud_key) =>
                /\ f.alias \notin DOMAIN gcs_values
                /\ IF BlobTexts(f) # {} THEN f.alias \in DOMAIN cloud_environ
                   ELSE Entry(values, f.alias) = Entry(LocalOnly, f.alias)

C5_Witness ==
    /\ pc = "done"
    /\ \E f \in FieldsOf : f.alias = "OPTS" /\ ~IsStr(f.cloud_key)
    /\ store["r1"].ok /\ store["rb"].ok
    /\ Len(fetched) = 2
    /\ BlobVars # EmptyMap
    /\ "OPTS" \in DOMAIN values
    /\ "OPTS" \notin DOMAIN init_kwargs

\* C6: a field with cloud_key whose variable is absent from the environment
\* (process environment over the .env file) or empty has no entry in the cloud
\* per-field layer, and no secret is fetched for it.
C6_NoVariableNoFetch ==
    \A f \in FieldsOf :
        (IsStr(f.cloud_key) /\ \A v \in HeldUnder(f.cloud_key.str) : v \in {None, Str("")}) =>
            /\ f.alias \notin DOMAIN gcs_values
            /\ \A i \in DOMAIN fetched : fetched[i][1] # f.alias

C6_Witness ==
    /\ GcsBuilt
    /\ environ = Single("REF", Str(""))
    /\ env_file = Str("REF=r1")
    /\ gcs_values = EmptyMap
    /\ fetched = <<>>

\* the run as a function of the settings class
resolve(slf) ==
    LET cloud == _build_cloud_environ(slf)
        gcs == _build_gcs_values(slf, env_file)
        secret_files == _build_secrets_files(secrets_dir)
        local == _build_environ(slf, env_file)
    IN IF ~cloud.ok THEN Raise(cloud.exc, cloud.arg)
       ELSE IF ~gcs.ok THEN Raise(gcs.exc, gcs.arg)
       ELSE IF ~secret_files.ok THEN Raise(secret_files.exc, secret_files.arg)
       ELSE IF ~local.ok THEN Raise(local.exc, local.arg)
       ELSE Return(_build_values(cloud.val, gcs.val, secret_files.val, local.val, init_kwargs))
Outcome == IF pc = "done" THEN Return(values) ELSE Raise(raised.exc, raised.arg)

\* C7: with cloud_env_file configured, when the variable it names is not in
\* the process environment or the fetch of the blob fails, the run ends as it
\* does with cloud_env_file not configured.
C7_MissingCloudEnvFileContributesNothing ==
    (/\ Terminal
     /\ self.cloud_env_file # None
     /\ \/ Under(environ, self.cloud_env_file.str) = {}
        \/ \E v \in Under(environ, self.cloud_env_file.str) : FetchFails(v.str))
    => Outcome = resolve([self EXCEPT !.cloud_env_file = None])

\* C8: a complex field whose text comes from the process environment resolves
\* to the decoded value when the text is valid JSON (no kwarg overriding it);
\* when the text is malformed the run ends in a SettingsError naming the
\* variable and no mapping is returned.
C8_LocalComplexValue ==
    Terminal =>
        \A f \in FieldsOf : \A v \in ProcTexts(f) :
            f.is_complex =>
                IF Malformed(v)
                THEN /\ pc = "raised"
                     /\ raised.exc = "SettingsError"
                     /\ raised.arg \in Names(f)
                     /\ values = EmptyMap
                ELSE (pc = "done" /\ f.alias \notin DOMAIN init_kwargs) =>
                         Entry(values, f.alias) = <<JsonTable[v.str]>>

C8_Witness ==
    /\ pc = "raised"
    /\ raised = [exc |-> "SettingsError", arg |-> "opts"]
    /\ Entry(environ, "OPTS") = <<Str("{a:1}")>>
    /\ values = EmptyMap

\* C9 as stated: the cloud layers do not JSON-decode: a complex field's value
\* from the blob or from a per-field secret enters the merge as text, and a
\* run only raises for a malformed text of the process environment.
C9_CloudLayersNeverDecode ==
    /\ CloudBuilt => \A f \in FieldsOf : \A v \in BlobTexts(f) :
           f.is_complex => Entry(cloud_environ, f.alias) = <<v>>
    /\ GcsBuilt => \A f \in FieldsOf :
           (f.is_complex /\ f.alias \in DOMAIN gcs_values) => ~IsDict(gcs_values[f.alias])
    /\ pc = "raised" => \E f \in FieldsOf : f.is_complex /\ \E v \in ProcTexts(f) : Malformed(v)

\* C9 amended: the cloud per-field layer does not JSON-decode (a secret of a
\* complex field enters the merge as the payload text and never ends the
\* run); the cloud env-file layer does: a complex field's text taken from the
\* blob enters the merge decoded, and ends the run in a SettingsError naming
\* the variable when it is malformed.
C9_OnlySecretLayerLeavesText ==
    /\ GcsBuilt => \A f \in FieldsOf : \A r \in DOMAIN store :
           (f.is_complex /\ RefersTo(f, r) /\ store[r].ok) =>
               Entry(gcs_values, f.alias) = <<Str(store[r].val)>>
    /\ pc = "raised" =>
           /\ raised.exc = "SettingsError"
           /\ \E f \in FieldsOf : f.is_complex /\ raised.arg \in Names(f) /\
                  \E v \in ProcTexts(f) \cup BlobTexts(f) : Malformed(v)
    /\ pc # "build_cloud_environ" => \A f \in FieldsOf : \A v \in BlobTexts(f) :
           f.is_complex =>
               IF Malformed(v) THEN pc = "raised"
               ELSE CloudBuilt /\ Entry(cloud_environ, f.alias) = <<JsonTable[v.str]>>

C9_Witness ==
    /\ pc = "done"
    /\ \E f \in FieldsOf : f.is_complex /\ BlobTexts(f) = {Str("{\"c\":3}")}
    /\ Entry(cloud_environ, "OPTS") = <<Dict(Single("c", Num(3)))>>
    /\ Entry(gcs_values, "OPTS") = <<Str("{\"b\":2}")>>
    /\ Entry(values, "OPTS") = <<Str("{\"b\":2}")>>

\* C10: with case_sensitive the keys of the blob keep their case: a field
\* whose (case-sensitive) source name is a key of the blob takes the blob's
\* value in the cloud env-file layer.
C10_BlobKeysKeepCase ==
    (CloudBuilt /\ self.case_sensitive) =>
        \A f \in FieldsOf : \A k \in DOMAIN BlobVars :
            (k \in Names(f) /\ BlobVars[k] # None /\ ProcTexts(f) = {}) =>
                f.alias \in DOMAIN cloud_environ

====
